---- MODULE Spec2Model ----
(***************************************************************************)
(* Model of the batched translation driver of IndicTransToolkit/example.py *)
(* (split_sentences, batch_translate, translate_paragraph).                *)
(*                                                                         *)
(* A sentence is a sequence of one-character strings.  The soft hyphen     *)
(* U+00AD is written "SHY".  The collaborators handed to batch_translate   *)
(* (ip, tokenizer, model) are deterministic per-sentence test doubles: the *)
(* model upper-cases its input, the tokenizer pads a batch to its longest  *)
(* row and drops special tokens when decoding.  The sentence splitters of  *)
(* NLTK, Moses and indic-nlp are libraries: each returns some division of  *)
(* the text into consecutive non-empty pieces.                             *)
(***************************************************************************)
EXTENDS Integers, Sequences, FiniteSets, TLC

\* ---------------------------------------------------------------- bounds
MaxSents == 5          \* longest sentence list handed to batch_translate
MaxTextLen == 5        \* longest paragraph handed to the splitter
MaxBatch == 4          \* largest BATCH_SIZE explored
MaxCalls == 2          \* calls made on the same mock model
MaxRequests == 2       \* HTTP requests served by the demo server

\* --------------------------------------------------------- program data
flores_codes ==
    [l \in {"asm_Beng", "awa_Deva", "ben_Beng", "bho_Deva", "brx_Deva",
            "doi_Deva", "eng_Latn", "gom_Deva", "guj_Gujr", "hin_Deva",
            "hne_Deva", "kan_Knda", "kas_Arab", "kas_Deva", "kha_Latn",
            "lus_Latn", "mag_Deva", "mai_Deva", "mal_Mlym", "mar_Deva",
            "mni_Beng", "mni_Mtei", "npi_Deva", "ory_Orya", "pan_Guru",
            "san_Deva", "sat_Olck", "snd_Arab", "snd_Deva", "tam_Taml",
            "tel_Telu", "urd_Arab"} |->
       CASE l = "asm_Beng" -> "as"
         [] l \in {"ben_Beng", "mni_Beng"} -> "bn"
         [] l \in {"eng_Latn", "kha_Latn", "lus_Latn"} -> "en"
         [] l = "gom_Deva" -> "kK"
         [] l = "guj_Gujr" -> "gu"
         [] l = "kan_Knda" -> "kn"
         [] l \in {"kas_Arab", "snd_Arab", "urd_Arab"} -> "ur"
         [] l = "mal_Mlym" -> "ml"
         [] l = "mar_Deva" -> "mr"
         [] l = "npi_Deva" -> "ne"
         [] l \in {"ory_Orya", "sat_Olck"} -> "or"
         [] l = "pan_Guru" -> "pa"
         [] l = "tam_Taml" -> "ta"
         [] l = "tel_Telu" -> "te"
         [] OTHER -> "hi"]

\* flores_codes[lang]; a tag without an entry raises KeyError
FloresCode_default(lang) ==
    IF lang \in DOMAIN flores_codes THEN flores_codes[lang] ELSE "hi"

FloresCode(lang) ==
    IF lang \in DOMAIN flores_codes THEN flores_codes[lang] ELSE "KeyError"

\* The language tags the calls are made with: two registered tags and one
\* that has no entry in flores_codes.
LangTags == {"eng_Latn", "hin_Deva", "xxx_Xxxx"}

\* Characters of the paragraphs and the sentence pool of direct calls.
TextChars == {"a", "SHY"}
SentencePool == {<<"a">>, <<"a", "b">>}

\* ------------------------------------------------------------- helpers
Min(a, b) == IF a < b THEN a ELSE b

Max(a, b) == IF a < b THEN b ELSE a

SeqsUpTo(S, n) == UNION {[1..k -> S] : k \in 0..n}

\* Python slice s[lo : hi] with 0-based lo, hi >= lo >= 0.
Slice_short(s, lo, hi) == SubSeq(s, lo + 1, Min(hi, Len(s)) - 1)

Slice_long(s, lo, hi) == SubSeq(s, lo + 1, Min(hi + 1, Len(s)))

Slice(s, lo, hi) == SubSeq(s, lo + 1, Min(hi, Len(s)))

\* Every division of t into consecutive non-empty pieces, in order.
RECURSIVE Segmentations(_)
Segmentations(t) ==
    IF t = <<>> THEN {<<>>}
    ELSE UNION {{<<SubSeq(t, 1, k)>> \o rest :
                     rest \in Segmentations(SubSeq(t, k + 1, Len(t)))} :
                k \in 1..Len(t)}

\* ------------------------------------------------------ split_sentences
\* sent.replace("\xad", "")
RECURSIVE StripSoftHyphen_first(_)
StripSoftHyphen_first(sent) ==
    IF sent = <<>> THEN <<>>
    ELSE IF Head(sent) = "SHY" THEN Tail(sent)
    ELSE <<Head(sent)>> \o StripSoftHyphen_first(Tail(sent))

RECURSIVE StripSoftHyphen(_)
StripSoftHyphen(sent) ==
    IF sent = <<>> THEN <<>>
    ELSE IF Head(sent) = "SHY" THEN StripSoftHyphen(Tail(sent))
    ELSE <<Head(sent)>> \o StripSoftHyphen(Tail(sent))

\* if len(sents_nltk) < len(sents_moses): nltk else: moses
ChooseSegmentation_greater(nltk, moses) ==
    IF Len(nltk) > Len(moses) THEN nltk ELSE moses

ChooseSegmentation(nltk, moses) ==
    IF Len(nltk) < Len(moses) THEN nltk ELSE moses

\* ------------------------------------------------- the test doubles
PAD == 1
EOS == 2
UNK == 3

\* tokenizer vocabulary (source side) and the model's output vocabulary
SrcVocab == [c \in {"a", "b", "SHY"} |->
               CASE c = "a" -> 10 [] c = "b" -> 11 [] OTHER -> 12]

TagVocab(l) == CASE l = "eng_Latn" -> 30 [] l = "hin_Deva" -> 31 [] OTHER -> UNK

\* the stub model: upper-cases, token by token
ModelMap(t) == t + 10

TgtVocab == [t \in {20, 21, 22} |->
               CASE t = 20 -> "A" [] t = 21 -> "B" [] OTHER -> "SHY"]

\* what the stub model makes of one sentence: the reference translation
Upper(c) == CASE c = "a" -> "A" [] c = "b" -> "B" [] OTHER -> c

Translation(s) == [k \in 1..Len(s) |-> Upper(s[k])]

\* ip.preprocess_batch: tags every sentence with the language pair
PreprocessSentence(s, src, tgt) == [src |-> src, tgt |-> tgt, text |-> s]

preprocess_batch(b, src, tgt) ==
    [k \in 1..Len(b) |-> PreprocessSentence(b[k], src, tgt)]

\* tokenizer(batch, padding="longest", return_attention_mask=True)
EncodeSentence(p) ==
    <<TagVocab(p.src), TagVocab(p.tgt)>> \o
    [k \in 1..Len(p.text) |-> SrcVocab[p.text[k]]] \o <<EOS>>

RECURSIVE Longest(_)
Longest(rows) ==
    IF rows = <<>> THEN 0 ELSE Max(Len(Head(rows)), Longest(Tail(rows)))

PadRow(row, n) == [k \in 1..n |-> IF k <= Len(row) THEN row[k] ELSE PAD]

MaskRow(row, n) == [k \in 1..n |-> IF k <= Len(row) THEN 1 ELSE 0]

Tokenize(b) ==
    LET rows == [k \in 1..Len(b) |-> EncodeSentence(b[k])]
        n == Longest(rows)
    IN [input_ids |-> [k \in 1..Len(b) |-> PadRow(rows[k], n)],
        attention_mask |-> [k \in 1..Len(b) |-> MaskRow(rows[k], n)]]

\* model.generate(**inputs, num_return_sequences=1): one row per input row,
\* padded to the longest generated row
RECURSIVE GenerateRow(_, _)
GenerateRow(ids, mask) ==
    IF ids = <<>> THEN <<EOS>>
    ELSE IF Head(mask) = 0 \/ Head(ids) \notin {10, 11, 12}
         THEN GenerateRow(Tail(ids), Tail(mask))
         ELSE <<ModelMap(Head(ids))>> \o GenerateRow(Tail(ids), Tail(mask))

Generate(enc) ==
    LET rows == [k \in 1..Len(enc.input_ids) |->
                    GenerateRow(enc.input_ids[k], enc.attention_mask[k])]
        n == Longest(rows)
    IN [k \in 1..Len(rows) |-> PadRow(rows[k], n)]

\* tokenizer.batch_decode(..., skip_special_tokens=True)
RECURSIVE DecodeRow(_)
DecodeRow(row) ==
    IF row = <<>> THEN <<>>
    ELSE IF Head(row) \in {PAD, EOS, UNK} THEN DecodeRow(Tail(row))
    ELSE <<TgtVocab[Head(row)]>> \o DecodeRow(Tail(row))

batch_decode(rows) == [k \in 1..Len(rows) |-> DecodeRow(rows[k])]

\* ip.postprocess_batch(generated_tokens, lang=tgt_lang): nothing was masked
\* by the preprocessing double, so every sentence comes back as decoded
postprocess_batch(sents, lang) == [k \in 1..Len(sents) |-> sents[k]]

\* translations += new
AppendBatch_overwrite(acc, new) == new

AppendBatch(acc, new) == acc \o new

\* batch_translate as a function of its arguments and the batch size
RECURSIVE BatchTranslateFrom(_, _, _, _, _, _)
BatchTranslateFrom(S, src, tgt, B, from, acc) ==
    IF from >= Len(S) THEN acc
    ELSE LET b == preprocess_batch(Slice(S, from, from + B), src, tgt)
             out == batch_decode(Generate(Tokenize(b)))
         IN BatchTranslateFrom(S, src, tgt, B, from + B,
                               AppendBatch(acc, postprocess_batch(out, tgt)))

batch_translate(S, src, tgt, B) == BatchTranslateFrom(S, src, tgt, B, 0, <<>>)

\* " ".join(translated_text)
RECURSIVE Join_trailing(_, _)
Join_trailing(sep, parts) ==
    IF parts = <<>> THEN <<>>
    ELSE parts[1] \o sep \o Join_trailing(sep, Tail(parts))

RECURSIVE Join(_, _)
Join(sep, parts) ==
    IF parts = <<>> THEN <<>>
    ELSE IF Len(parts) = 1 THEN parts[1]
    ELSE parts[1] \o sep \o Join(sep, Tail(parts))

\* ------------------------------------------------------------- state
VARIABLES
    pc,               \* position of the running call
    op,               \* the function the caller invoked
    BATCH_SIZE,       \* module-level configuration
    ncalls,           \* calls started so far
    input_text, src_lang, tgt_lang,      \* arguments
    input_sentences,  \* argument of batch_translate / local of the others
    sents_nltk, sents_moses,             \* locals of split_sentences
    i, batch, inputs, generated_tokens, translations,  \* locals of batch_translate
    batches,          \* log of the slices taken, in processing order
    result, error,    \* what the call handed to its caller
    tokenizer_calls, model_calls,        \* call counts of the doubles
    calls_at_start    \* model_calls when the running call started

\* observation of the running batch_translate call
VARIABLES
    steps,            \* log of the statements executed, <<batch number, step>>
    held,             \* batch numbers whose encoded inputs are still alive
    cache_emptied,    \* torch.cuda.empty_cache() calls of the running call
    failed_batch,     \* batch number at which generate raised, -1 if none
    error_batch,      \* batch number carried by the raised error, -1 if none
    prev_result       \* what the previous call with these arguments returned

driverVars == <<pc, op, BATCH_SIZE, ncalls, input_text, src_lang, tgt_lang,
                input_sentences, sents_nltk, sents_moses, i, batch, inputs,
                generated_tokens, translations, batches, result, error,
                tokenizer_calls, model_calls, calls_at_start>>

resources == <<held, cache_emptied>>

failure == <<failed_batch, error_batch>>

observed == <<steps, resources, failure, prev_result>>

\* initialize_model_and_tokenizer (example.py, lines 86-125)
VARIABLES
    l_pc,                    \* position in initialize_model_and_tokenizer
    ckpt_dir, quantization,  \* arguments
    attn_implementation,     \* argument, reassigned at lines 103-107
    requested_attn,          \* the attention implementation the caller asked for
    flash_attn_2_available,  \* is_flash_attn_2_available()
    flash_attn_ge_2_10,      \* is_flash_attn_greater_or_equal_2_10()
    DEVICE,                  \* "cuda" or "cpu"
    qconfig,                 \* local
    tokenizer_ckpt,          \* checkpoint the tokenizer was loaded from
    model                    \* the loaded model: how it was loaded and set up

loaderVars == <<l_pc, ckpt_dir, quantization, attn_implementation,
                requested_attn, flash_attn_2_available, flash_attn_ge_2_10,
                DEVICE, qconfig, tokenizer_ckpt, model>>

\* the greedy decoding script (IndicTransToolkit/test1.py, lines 37-71)
VARIABLES
    g_pc,             \* position in the script
    g_iter,           \* iterations of the decoding loop started so far
    generated_len,    \* generated_ids.size(1), the tokens of every row
    next_eos,         \* rows whose next_token_id of the last step is EOS
    eos_seen          \* rows that have produced EOS at some step

greedyVars == <<g_pc, g_iter, generated_len, next_eos, eos_seen>>

\* the Flask demo server (UI/e.py): POST /translate and the engine behind it
VARIABLES
    w_pc,                   \* position of the request being served
    request,                \* JSON body: text, source_lang, target_lang
    http_status,            \* status of the response, 0 while there is none
    response_success,       \* 'success' of the response body
    engine_result,          \* 'success' of the dict ai_engine.translate returned
    engine_raised,          \* an exception was raised inside ai_engine.translate
    engine_calls,           \* calls of ai_engine.translate
    METRICS,                \* the global counters
    INDIC_TRANS_AVAILABLE,  \* module flag set by the import
    translation_engine,     \* ai_engine.translation_engine
    served,                 \* requests received so far
    engine_calls_at_start,  \* engine_calls when the request was received
    metrics_at_start        \* METRICS when the request was received

webVars == <<w_pc, request, http_status, response_success, engine_result,
             engine_raised, engine_calls, METRICS, INDIC_TRANS_AVAILABLE,
             translation_engine, served, engine_calls_at_start,
             metrics_at_start>>

\* the Flask demo server: the other endpoints and engine functions
VARIABLES
    endpoint,                \* the route serving the request
    language,                \* 'language' of a POST /text-to-speech body
    operation,               \* 'operation' of a POST /batch-process body
    texts,                   \* 'texts' of a POST /batch-process body
    results,                 \* batch_process: 'success' of the results so far
    engine_args,             \* function and arguments of the last engine call
    AI4BHARAT_AVAILABLE,     \* module flag set by the import
    transliteration_engine,  \* ai_engine.transliteration_engine
    TTS_AVAILABLE,           \* module flag set by the import
    producer,                \* what produced the text of the running engine call
    model_used,              \* 'model_used' of the dict the engine returned
    audio_base64,            \* text_to_speech: whether audio was produced
    audio_path,              \* text_to_speech: the temporary file of this call
    temp_files,              \* temporary audio files that exist on disk
    metrics_at_call          \* METRICS when the engine function was entered

webMore == <<endpoint, language, operation, texts, results, engine_args,
             AI4BHARAT_AVAILABLE, transliteration_engine, TTS_AVAILABLE,
             producer, model_used, audio_base64, audio_path, temp_files,
             metrics_at_call>>

\* the FastAPI transliteration service (transliteration/test.py)
VARIABLES
    x_pc,              \* position of the request being served
    req,               \* the TransliterationRequest
    x_status,          \* status of the response, 0 while there is none
    x_detail,          \* 'detail' of the HTTPException raised
    engine,            \* the XlitEngine of this request, "none" before it
    translit_calls,    \* engine.translit_sentence calls of this request
    x_result,          \* local list 'result'
    x_body,            \* the list the response carries
    x_served,          \* requests received so far
    x_failed_at        \* index of the sentence whose transliteration raised

xlitVars == <<x_pc, req, x_status, x_detail, engine, translit_calls,
              x_result, x_body, x_served, x_failed_at>>

\* request threads of the Flask server (app.run(..., threaded=True))
VARIABLES
    th_pc,             \* position of every thread in its engine call
    th_fn,             \* the engine function every thread runs
    th_loaded,         \* the counter value every thread has read
    th_reached         \* engine calls that reached the counter update

threadVars == <<th_pc, th_fn, th_loaded, th_reached>>

services == <<webVars, webMore, xlitVars, threadVars>>

\* the state of the other programs of the repository
others == <<loaderVars, greedyVars, services>>

vars == <<driverVars, observed, others>>

args == <<input_text, src_lang, tgt_lang>>

splitLocals == <<sents_nltk, sents_moses>>

loopLocals == <<i, batch, inputs, generated_tokens, translations, batches>>

counters == <<tokenizer_calls, model_calls, calls_at_start>>

DriverInit ==
    /\ pc = "idle"
    /\ op = "none"
    /\ BATCH_SIZE \in 1..MaxBatch
    /\ ncalls = 0
    /\ input_text = <<>>
    /\ src_lang = "eng_Latn"
    /\ tgt_lang = "eng_Latn"
    /\ input_sentences = <<>>
    /\ sents_nltk = <<>>
    /\ sents_moses = <<>>
    /\ i = 0
    /\ batch = <<>>
    /\ inputs = <<>>
    /\ generated_tokens = <<>>
    /\ translations = <<>>
    /\ batches = <<>>
    /\ result = <<>>
    /\ error = "none"
    /\ tokenizer_calls = 0
    /\ model_calls = 0
    /\ calls_at_start = 0
    /\ steps = <<>>
    /\ held = {}
    /\ cache_emptied = 0
    /\ failed_batch = -1
    /\ error_batch = -1
    /\ prev_result = <<>>

NoModel == [ckpt |-> "none", attn |-> "none", qconfig |-> "none",
            device |-> "none", half |-> FALSE, eval |-> FALSE]

LoaderIdle ==
    /\ l_pc = "idle"
    /\ ckpt_dir = "none"
    /\ quantization = ""
    /\ attn_implementation = "eager"
    /\ requested_attn = "eager"
    /\ flash_attn_2_available = FALSE
    /\ flash_attn_ge_2_10 = FALSE
    /\ DEVICE = "cpu"
    /\ qconfig = "None"
    /\ tokenizer_ckpt = "none"
    /\ model = NoModel

GreedyIdle ==
    /\ g_pc = "idle"
    /\ g_iter = 0
    /\ generated_len = 0
    /\ next_eos = {}
    /\ eos_seen = {}

NoRequest == [text |-> <<>>, source_lang |-> "en", target_lang |-> "hi"]

ZeroMetrics == [total_requests |-> 0, translation_requests |-> 0,
                transliteration_requests |-> 0, tts_requests |-> 0]

WebIdle ==
    /\ w_pc = "idle"
    /\ request = NoRequest
    /\ http_status = 0
    /\ response_success = "none"
    /\ engine_result = "none"
    /\ engine_raised = FALSE
    /\ engine_calls = 0
    /\ METRICS = ZeroMetrics
    /\ INDIC_TRANS_AVAILABLE = FALSE
    /\ translation_engine = "None"
    /\ served = 0
    /\ engine_calls_at_start = 0
    /\ metrics_at_start = ZeroMetrics

NoEngineCall == [fn |-> "none", langs |-> <<>>]

WebMoreIdle ==
    /\ endpoint = "none"
    /\ language = "hi"
    /\ operation = "translate"
    /\ texts = <<>>
    /\ results = <<>>
    /\ engine_args = NoEngineCall
    /\ AI4BHARAT_AVAILABLE = FALSE
    /\ transliteration_engine = "None"
    /\ TTS_AVAILABLE = FALSE
    /\ producer = "none"
    /\ model_used = "none"
    /\ audio_base64 = "None"
    /\ audio_path = "None"
    /\ temp_files = 0
    /\ metrics_at_call = ZeroMetrics

NoXlitRequest == [sentences |-> <<>>, lang |-> "ta", beam_width |-> 10]

XlitIdle ==
    /\ x_pc = "idle"
    /\ req = NoXlitRequest
    /\ x_status = 0
    /\ x_detail = "none"
    /\ engine = "none"
    /\ translit_calls = 0
    /\ x_result = <<>>
    /\ x_body = <<>>
    /\ x_served = 0
    /\ x_failed_at = 0

Threads == 1..2

ThreadsIdle ==
    /\ th_pc = [t \in Threads |-> "idle"]
    /\ th_fn = [t \in Threads |-> "translate"]
    /\ th_loaded = [t \in Threads |-> 0]
    /\ th_reached = 0

ServicesIdle == WebIdle /\ WebMoreIdle /\ XlitIdle /\ ThreadsIdle

Init == DriverInit /\ LoaderIdle /\ GreedyIdle /\ ServicesIdle

\* i // BATCH_SIZE, the number of the batch in hand (0-based)
BatchNo == i \div BATCH_SIZE

Logged(step) == Append(steps, <<BatchNo, step>>)

\* ------------------------------------------------------------ the calls
ResetLocals ==
    /\ sents_nltk' = <<>>
    /\ sents_moses' = <<>>
    /\ i' = 0
    /\ batch' = <<>>
    /\ inputs' = <<>>
    /\ generated_tokens' = <<>>
    /\ translations' = <<>>
    /\ batches' = <<>>
    /\ result' = <<>>
    /\ error' = "none"
    /\ calls_at_start' = model_calls
    /\ steps' = <<>>
    /\ held' = {}
    /\ cache_emptied' = 0
    /\ failed_batch' = -1
    /\ error_batch' = -1
    /\ UNCHANGED others

\* the caller invokes split_sentences(input_text, lang)
CallSplitSentences ==
    /\ pc = "idle"
    /\ \E t \in SeqsUpTo(TextChars, MaxTextLen), l \in LangTags :
          /\ input_text' = t
          /\ src_lang' = l
    /\ op' = "split_sentences"
    /\ pc' = "split"
    /\ ncalls' = ncalls + 1
    /\ input_sentences' = <<>>
    /\ prev_result' = <<>>
    /\ ResetLocals
    /\ UNCHANGED <<BATCH_SIZE, tgt_lang, tokenizer_calls, model_calls>>

\* the caller invokes translate_paragraph(input_text, src_lang, tgt_lang, ...)
CallTranslateParagraph ==
    /\ pc = "idle"
    /\ \E t \in SeqsUpTo(TextChars, MaxTextLen), s \in LangTags, g \in LangTags :
          /\ input_text' = t
          /\ src_lang' = s
          /\ tgt_lang' = g
    /\ op' = "translate_paragraph"
    /\ pc' = "split"
    /\ ncalls' = ncalls + 1
    /\ input_sentences' = <<>>
    /\ prev_result' = <<>>
    /\ ResetLocals
    /\ UNCHANGED <<BATCH_SIZE, tokenizer_calls, model_calls>>

\* the caller invokes batch_translate(input_sentences, src_lang, tgt_lang, ...)
CallBatchTranslate ==
    /\ pc = "idle"
    /\ \E S \in SeqsUpTo(SentencePool, MaxSents), s \in LangTags, g \in LangTags :
          /\ input_sentences' = S
          /\ src_lang' = s
          /\ tgt_lang' = g
    /\ op' = "batch_translate"
    /\ pc' = "bt_loop"
    /\ ncalls' = ncalls + 1
    /\ input_text' = <<>>
    /\ prev_result' = <<>>
    /\ ResetLocals
    /\ UNCHANGED <<BATCH_SIZE, tokenizer_calls, model_calls>>

\* the caller repeats a finished batch_translate call with the same arguments
\* and the same mock model
CallBatchTranslateAgain ==
    /\ pc = "done"
    /\ op = "batch_translate"
    /\ ncalls < MaxCalls
    /\ pc' = "bt_loop"
    /\ ncalls' = ncalls + 1
    /\ prev_result' = result
    /\ ResetLocals
    /\ UNCHANGED <<op, BATCH_SIZE, args, input_sentences,
                   tokenizer_calls, model_calls>>

\* split_sentences, lines 66-83
SplitSentences ==
    /\ pc = "split"
    /\ IF src_lang = "eng_Latn"
       THEN \E nltk \in Segmentations(input_text),
               moses \in Segmentations(input_text) :
              LET chosen == ChooseSegmentation(nltk, moses)
              IN /\ sents_nltk' = nltk
                 /\ sents_moses' = moses
                 /\ input_sentences' =
                        [k \in 1..Len(chosen) |-> StripSoftHyphen(chosen[k])]
                 /\ error' = "none"
       ELSE IF FloresCode(src_lang) # "KeyError"
       THEN \E sents \in Segmentations(input_text) :
                 /\ input_sentences' = sents
                 /\ error' = "none"
                 /\ UNCHANGED splitLocals
       ELSE /\ error' = "KeyError"
            /\ UNCHANGED <<input_sentences, splitLocals>>
    /\ pc' = IF error' # "none" THEN "raised"
             ELSE IF op = "split_sentences" THEN "done" ELSE "split_return"
    /\ result' = IF error' = "none" /\ op = "split_sentences"
                 THEN input_sentences' ELSE result
    /\ UNCHANGED <<observed, others>>
    /\ UNCHANGED <<op, BATCH_SIZE, ncalls, args, loopLocals, counters>>

\* translate_paragraph, lines 171-172: the split has returned, its locals are
\* gone, batch_translate is entered
EnterBatchTranslate ==
    /\ pc = "split_return"
    /\ pc' = "bt_loop"
    /\ sents_nltk' = <<>>
    /\ sents_moses' = <<>>
    /\ translations' = <<>>
    /\ i' = 0
    /\ UNCHANGED <<observed, others>>
    /\ UNCHANGED <<op, BATCH_SIZE, ncalls, args, input_sentences, batch, inputs,
                   generated_tokens, batches, result, error, counters>>

\* ------------------------------------------------------ batch_translate
\* range(0, stop, step) seen from the value k it has reached: a positive step
\* yields k while k < stop, a negative step yields nothing for stop >= 0, and
\* a step of zero makes range() raise ValueError
RangeHas_inclusive(k, stop, step) == step > 0 /\ k <= stop

RangeHas(k, stop, step) == step > 0 /\ k < stop

RangeExhausted(k, stop, step) == (step > 0 /\ k >= stop) \/ step < 0

\* range(0, len(input_sentences), 0): ValueError at the loop header
RangeError ==
    /\ pc = "bt_loop"
    /\ BATCH_SIZE = 0
    /\ pc' = "raised"
    /\ error' = "ValueError"
    /\ UNCHANGED <<op, BATCH_SIZE, ncalls, args, input_sentences, splitLocals,
                   loopLocals, result, counters, observed, others>>

\* for i in range(0, len(input_sentences), BATCH_SIZE): batch = slice
LoopHead_pop ==
    /\ pc = "bt_loop"
    /\ RangeHas(i, Len(input_sentences), BATCH_SIZE)
    /\ batch' = Slice(input_sentences, i, i + BATCH_SIZE)
    /\ input_sentences' = Slice(input_sentences, i + BATCH_SIZE,
                                Len(input_sentences))
    /\ batches' = Append(batches, batch')
    /\ pc' = "bt_preprocess"
    /\ UNCHANGED <<observed, others>>
    /\ UNCHANGED <<op, BATCH_SIZE, ncalls, args, splitLocals,
                   i, inputs, generated_tokens, translations, result, error,
                   counters>>

LoopHead ==
    /\ pc = "bt_loop"
    /\ RangeHas(i, Len(input_sentences), BATCH_SIZE)
    /\ batch' = Slice(input_sentences, i, i + BATCH_SIZE)
    /\ batches' = Append(batches, batch')
    /\ pc' = "bt_preprocess"
    /\ UNCHANGED <<observed, others>>
    /\ UNCHANGED <<op, BATCH_SIZE, ncalls, args, input_sentences, splitLocals,
                   i, inputs, generated_tokens, translations, result, error,
                   counters>>

\* batch = ip.preprocess_batch(batch, src_lang=..., tgt_lang=...)
Preprocess ==
    /\ pc = "bt_preprocess"
    /\ batch' = preprocess_batch(batch, src_lang, tgt_lang)
    /\ pc' = "bt_tokenize"
    /\ steps' = Logged("preprocess")
    /\ UNCHANGED <<resources, failure, prev_result, others>>
    /\ UNCHANGED <<op, BATCH_SIZE, ncalls, args, input_sentences, splitLocals,
                   i, inputs, generated_tokens, translations, batches, result,
                   error, counters>>

\* inputs = tokenizer(batch, ...).to(DEVICE)
TokenizeBatch ==
    /\ pc = "bt_tokenize"
    /\ inputs' = Tokenize(batch)
    /\ tokenizer_calls' = tokenizer_calls + 1
    /\ pc' = "bt_generate"
    /\ steps' = Logged("encode")
    /\ held' = held \cup {BatchNo}
    /\ UNCHANGED <<cache_emptied, failure, prev_result, others>>
    /\ UNCHANGED <<op, BATCH_SIZE, ncalls, args, input_sentences, splitLocals,
                   i, batch, generated_tokens, translations, batches, result,
                   error, model_calls, calls_at_start>>

\* generated_tokens = model.generate(**inputs, ...)
GenerateBatch_cached ==
    /\ pc = "bt_generate"
    /\ generated_tokens' = Generate(inputs)
    /\ model_calls' = IF ncalls > 1 THEN model_calls ELSE model_calls + 1
    /\ pc' = "bt_decode"
    /\ steps' = Logged("generate")
    /\ UNCHANGED <<resources, failure, prev_result, others>>
    /\ UNCHANGED <<op, BATCH_SIZE, ncalls, args, input_sentences, splitLocals,
                   i, batch, inputs, translations, batches, result, error,
                   tokenizer_calls, calls_at_start>>

GenerateBatch ==
    /\ pc = "bt_generate"
    /\ generated_tokens' = Generate(inputs)
    /\ model_calls' = model_calls + 1
    /\ pc' = "bt_decode"
    /\ steps' = Logged("generate")
    /\ UNCHANGED <<resources, failure, prev_result, others>>
    /\ UNCHANGED <<op, BATCH_SIZE, ncalls, args, input_sentences, splitLocals,
                   i, batch, inputs, translations, batches, result, error,
                   tokenizer_calls, calls_at_start>>

\* generated_tokens = tokenizer.batch_decode(generated_tokens, ...)
DecodeBatch ==
    /\ pc = "bt_decode"
    /\ generated_tokens' = batch_decode(generated_tokens)
    /\ pc' = "bt_postprocess"
    /\ steps' = Logged("decode")
    /\ UNCHANGED <<resources, failure, prev_result, others>>
    /\ UNCHANGED <<op, BATCH_SIZE, ncalls, args, input_sentences, splitLocals,
                   i, batch, inputs, translations, batches, result, error,
                   counters>>

\* translations += ip.postprocess_batch(generated_tokens, lang=tgt_lang)
PostprocessAppend ==
    /\ pc = "bt_postprocess"
    /\ translations' = AppendBatch(translations,
                                   postprocess_batch(generated_tokens, tgt_lang))
    /\ pc' = "bt_release"
    /\ steps' = Append(Logged("postprocess"), <<BatchNo, "append">>)
    /\ UNCHANGED <<resources, failure, prev_result, others>>
    /\ UNCHANGED <<op, BATCH_SIZE, ncalls, args, input_sentences, splitLocals,
                   i, batch, inputs, generated_tokens, batches, result, error,
                   counters>>

\* model.generate raises: nothing in batch_translate or translate_paragraph
\* catches it, the call ends with the model's own exception
GenerateRaises_swallowed ==
    /\ pc = "bt_generate"
    /\ model_calls' = model_calls + 1
    /\ steps' = Logged("generate")
    /\ failed_batch' = BatchNo
    /\ pc' = "done"
    /\ result' = translations
    /\ UNCHANGED <<op, BATCH_SIZE, ncalls, args, input_sentences, splitLocals,
                   loopLocals, error, tokenizer_calls, calls_at_start,
                   resources, error_batch, prev_result, others>>

GenerateRaises_retry ==
    /\ pc = "bt_generate"
    /\ model_calls' = model_calls + 1
    /\ steps' = Logged("generate")
    /\ failed_batch' = BatchNo
    /\ pc' = IF failed_batch = -1 THEN "bt_generate" ELSE "raised"
    /\ error' = IF failed_batch = -1 THEN error ELSE "RuntimeError"
    /\ UNCHANGED <<op, BATCH_SIZE, ncalls, args, input_sentences, splitLocals,
                   loopLocals, result, tokenizer_calls, calls_at_start,
                   resources, error_batch, prev_result, others>>

GenerateRaises ==
    /\ pc = "bt_generate"
    /\ model_calls' = model_calls + 1
    /\ steps' = Logged("generate")
    /\ failed_batch' = BatchNo
    /\ pc' = "raised"
    /\ error' = "RuntimeError"
    /\ UNCHANGED <<op, BATCH_SIZE, ncalls, args, input_sentences, splitLocals,
                   loopLocals, result, tokenizer_calls, calls_at_start,
                   resources, error_batch, prev_result, others>>

\* del inputs; torch.cuda.empty_cache(); next i of the range
Release_keep ==
    /\ pc = "bt_release"
    /\ inputs' = <<>>
    /\ i' = i + BATCH_SIZE
    /\ pc' = "bt_loop"
    /\ steps' = Logged("release")
    /\ cache_emptied' = cache_emptied + 1
    /\ UNCHANGED <<held, failure, prev_result, others>>
    /\ UNCHANGED <<op, BATCH_SIZE, ncalls, args, input_sentences, splitLocals,
                   batch, generated_tokens, translations, batches, result,
                   error, counters>>

Release ==
    /\ pc = "bt_release"
    /\ inputs' = <<>>
    /\ i' = i + BATCH_SIZE
    /\ pc' = "bt_loop"
    /\ steps' = Logged("release")
    /\ held' = held \ {BatchNo}
    /\ cache_emptied' = cache_emptied + 1
    /\ UNCHANGED <<failure, prev_result, others>>
    /\ UNCHANGED <<op, BATCH_SIZE, ncalls, args, input_sentences, splitLocals,
                   batch, generated_tokens, translations, batches, result,
                   error, counters>>

\* return translations (line 166), to the caller or to translate_paragraph
BatchReturn ==
    /\ pc = "bt_loop"
    /\ RangeExhausted(i, Len(input_sentences), BATCH_SIZE)
    /\ IF op = "batch_translate"
       THEN /\ result' = translations
            /\ pc' = "done"
       ELSE /\ result' = result
            /\ pc' = "join"
    /\ UNCHANGED <<observed, others>>
    /\ UNCHANGED <<op, BATCH_SIZE, ncalls, args, input_sentences, splitLocals,
                   loopLocals, error, counters>>

\* return " ".join(translated_text) (line 173)
JoinReturn ==
    /\ pc = "join"
    /\ result' = Join(<<" ">>, translations)
    /\ pc' = "done"
    /\ UNCHANGED <<observed, others>>
    /\ UNCHANGED <<op, BATCH_SIZE, ncalls, args, input_sentences, splitLocals,
                   loopLocals, error, counters>>

Next ==
    \/ CallSplitSentences
    \/ CallTranslateParagraph
    \/ CallBatchTranslate
    \/ CallBatchTranslateAgain
    \/ SplitSentences
    \/ EnterBatchTranslate
    \/ LoopHead
    \/ Preprocess
    \/ TokenizeBatch
    \/ GenerateBatch
    \/ GenerateRaises
    \/ DecodeBatch
    \/ PostprocessAppend
    \/ Release
    \/ BatchReturn
    \/ JoinReturn

Spec == Init /\ [][Next]_vars

\* the same calls under any configured BATCH_SIZE, non-positive ones included
NonPositiveSizes == {-1, 0}

InitConfig ==
    /\ pc = "idle"
    /\ op = "none"
    /\ BATCH_SIZE \in NonPositiveSizes \cup (1..MaxBatch)
    /\ ncalls = 0
    /\ input_text = <<>>
    /\ src_lang = "eng_Latn"
    /\ tgt_lang = "eng_Latn"
    /\ input_sentences = <<>>
    /\ sents_nltk = <<>>
    /\ sents_moses = <<>>
    /\ i = 0
    /\ batch = <<>>
    /\ inputs = <<>>
    /\ generated_tokens = <<>>
    /\ translations = <<>>
    /\ batches = <<>>
    /\ result = <<>>
    /\ error = "none"
    /\ tokenizer_calls = 0
    /\ model_calls = 0
    /\ calls_at_start = 0
    /\ steps = <<>>
    /\ held = {}
    /\ cache_emptied = 0
    /\ failed_batch = -1
    /\ error_batch = -1
    /\ prev_result = <<>>
    /\ LoaderIdle
    /\ GreedyIdle
    /\ ServicesIdle

NextConfig == Next \/ RangeError

SpecConfig == InitConfig /\ [][NextConfig]_vars

TypeOK ==
    /\ pc \in {"idle", "split", "split_return", "bt_loop", "bt_preprocess",
               "bt_tokenize", "bt_generate", "bt_decode", "bt_postprocess",
               "bt_release", "join", "done", "raised"}
    /\ BATCH_SIZE \in 1..MaxBatch
    /\ i \in Nat

\* ------------------------------------- initialize_model_and_tokenizer
Checkpoints == {"en-indic", "indic-en", "indic-indic"}

Quantizations == {"", "4-bit", "8-bit"}

AttnImplementations == {"eager", "flash_attention_2"}

\* the batch-translation driver at rest, as the module configures it
DriverIdle == DriverInit /\ BATCH_SIZE = MaxBatch

driverAll == <<driverVars, observed>>

\* lines 88-101
SelectQConfig(q) ==
    IF q = "4-bit" THEN "load_in_4bit"
    ELSE IF q = "8-bit" THEN "load_in_8bit" ELSE "None"

\* lines 103-107
ResolveAttention(attn, available, ge_2_10) ==
    IF attn = "flash_attention_2"
    THEN IF available /\ ge_2_10 THEN "flash_attention_2" ELSE "eager"
    ELSE attn

\* the attn_implementation keyword handed to from_pretrained (line 115)
LoadAttention(attn) == "eager"

\* a caller invokes initialize_model_and_tokenizer on some machine
CallInitialize ==
    /\ l_pc = "idle"
    /\ \E c \in Checkpoints, q \in Quantizations, a \in AttnImplementations,
          f \in BOOLEAN, g \in BOOLEAN, d \in {"cuda", "cpu"} :
          /\ ckpt_dir' = c
          /\ quantization' = q
          /\ attn_implementation' = a
          /\ requested_attn' = a
          /\ flash_attn_2_available' = f
          /\ flash_attn_ge_2_10' = g
          /\ DEVICE' = d
    /\ l_pc' = "quantization"
    /\ UNCHANGED <<qconfig, tokenizer_ckpt, model, driverAll, greedyVars, services>>

\* lines 88-101
ChooseQConfig ==
    /\ l_pc = "quantization"
    /\ qconfig' = SelectQConfig(quantization)
    /\ l_pc' = "attention"
    /\ UNCHANGED <<ckpt_dir, quantization, attn_implementation, requested_attn,
                   flash_attn_2_available, flash_attn_ge_2_10, DEVICE,
                   tokenizer_ckpt, model, driverAll, greedyVars, services>>

\* lines 103-107
ChooseAttention ==
    /\ l_pc = "attention"
    /\ attn_implementation' = ResolveAttention(attn_implementation,
                                   flash_attn_2_available, flash_attn_ge_2_10)
    /\ l_pc' = "tokenizer"
    /\ UNCHANGED <<ckpt_dir, quantization, requested_attn,
                   flash_attn_2_available, flash_attn_ge_2_10, DEVICE, qconfig,
                   tokenizer_ckpt, model, driverAll, greedyVars, services>>

\* line 110
LoadTokenizer ==
    /\ l_pc = "tokenizer"
    /\ tokenizer_ckpt' = ckpt_dir
    /\ l_pc' = "model"
    /\ UNCHANGED <<ckpt_dir, quantization, attn_implementation, requested_attn,
                   flash_attn_2_available, flash_attn_ge_2_10, DEVICE, qconfig,
                   model, driverAll, greedyVars, services>>

\* lines 112-118
LoadModel ==
    /\ l_pc = "model"
    /\ model' = [ckpt |-> ckpt_dir, attn |-> LoadAttention(attn_implementation),
                 qconfig |-> qconfig, device |-> "cpu", half |-> FALSE,
                 eval |-> FALSE]
    /\ l_pc' = "place"
    /\ UNCHANGED <<ckpt_dir, quantization, attn_implementation, requested_attn,
                   flash_attn_2_available, flash_attn_ge_2_10, DEVICE, qconfig,
                   tokenizer_ckpt, driverAll, greedyVars, services>>

\* lines 120-125
PlaceAndReturn ==
    /\ l_pc = "place"
    /\ model' = IF qconfig = "None"
                THEN [model EXCEPT !.device = DEVICE, !.half = TRUE, !.eval = TRUE]
                ELSE [model EXCEPT !.eval = TRUE]
    /\ l_pc' = "returned"
    /\ UNCHANGED <<ckpt_dir, quantization, attn_implementation, requested_attn,
                   flash_attn_2_available, flash_attn_ge_2_10, DEVICE, qconfig,
                   tokenizer_ckpt, driverAll, greedyVars, services>>

InitLoader == DriverIdle /\ LoaderIdle /\ GreedyIdle /\ ServicesIdle

NextLoader ==
    \/ CallInitialize
    \/ ChooseQConfig
    \/ ChooseAttention
    \/ LoadTokenizer
    \/ LoadModel
    \/ PlaceAndReturn

SpecLoader == InitLoader /\ [][NextLoader]_vars

\* ------------------------------------------- greedy decoding (test1.py)
max_length == 256

\* the rows of the batch: the four input_sentences of the script
Rows == 1..4

greedyRest == <<driverAll, loaderVars, services>>

\* lines 37-47: encoder pass, generated_ids = one pad token per row
GreedyStart ==
    /\ g_pc = "idle"
    /\ generated_len' = 1
    /\ g_iter' = 0
    /\ next_eos' = {}
    /\ eos_seen' = {}
    /\ g_pc' = "loop"
    /\ UNCHANGED greedyRest

\* lines 50-59: one decoder pass; argmax picks the next token of every row
\* (EOS for the rows in E) and torch.cat appends it
GreedyStep ==
    /\ g_pc = "loop"
    /\ g_iter < max_length
    /\ \E E \in SUBSET Rows :
          /\ next_eos' = E
          /\ eos_seen' = eos_seen \cup E
    /\ g_iter' = g_iter + 1
    /\ generated_len' = generated_len + 1
    /\ g_pc' = "check"
    /\ UNCHANGED greedyRest

\* lines 62-63: if (next_token_id == eos_token_id).all(): break
GreedyBreak ==
    /\ g_pc = "check"
    /\ next_eos = Rows
    /\ g_pc' = "decode"
    /\ UNCHANGED <<g_iter, generated_len, next_eos, eos_seen, greedyRest>>

GreedyContinue ==
    /\ g_pc = "check"
    /\ next_eos # Rows
    /\ g_pc' = "loop"
    /\ UNCHANGED <<g_iter, generated_len, next_eos, eos_seen, greedyRest>>

\* range(max_length) is exhausted
GreedyExhausted ==
    /\ g_pc = "loop"
    /\ g_iter >= max_length
    /\ g_pc' = "decode"
    /\ UNCHANGED <<g_iter, generated_len, next_eos, eos_seen, greedyRest>>

\* lines 65-71: batch_decode and postprocess_batch
GreedyDecode ==
    /\ g_pc = "decode"
    /\ g_pc' = "done"
    /\ UNCHANGED <<g_iter, generated_len, next_eos, eos_seen, greedyRest>>

InitGreedy == DriverIdle /\ LoaderIdle /\ GreedyIdle /\ ServicesIdle

NextGreedy ==
    \/ GreedyStart
    \/ GreedyStep
    \/ GreedyBreak
    \/ GreedyContinue
    \/ GreedyExhausted
    \/ GreedyDecode

SpecGreedy == InitGreedy /\ [][NextGreedy]_vars

\* ------------------------------------------------ the demo server (e.py)
SUPPORTED_LANGUAGES ==
    {"hi", "en", "bn", "gu", "kn", "ml", "mr", "or", "pa", "ta", "te", "ur",
     "as", "mai", "awa", "sa"}

\* language codes and texts the requests are made with
WebLangs == {"en", "hi", "xx"}

WebTexts == {<<>>, <<" ">>, <<"h", "i">>, <<" ", "h">>}

\* str.strip()
RECURSIVE LStrip(_)
LStrip(t) == IF t # <<>> /\ Head(t) = " " THEN LStrip(Tail(t)) ELSE t

RECURSIVE RStrip(_)
RStrip(t) ==
    IF t # <<>> /\ t[Len(t)] = " " THEN RStrip(SubSeq(t, 1, Len(t) - 1)) ELSE t

Strip(t) == RStrip(LStrip(t))

\* source_lang not in SUPPORTED_LANGUAGES or target_lang not in ... (line 1101)
LanguagesSupported_sourceOnly(src, tgt) == src \in SUPPORTED_LANGUAGES

LanguagesSupported(src, tgt) ==
    src \in SUPPORTED_LANGUAGES /\ tgt \in SUPPORTED_LANGUAGES

webRest == <<driverAll, loaderVars, greedyVars, xlitVars, threadVars>>

webConfig == <<INDIC_TRANS_AVAILABLE, translation_engine, AI4BHARAT_AVAILABLE,
               transliteration_engine, TTS_AVAILABLE>>

TTS_LANGUAGES == {"hi", "en", "mai", "awa", "sa"}

\* language codes the tts and batch requests are made with: "bn" is a
\* supported language without speech support
SpeechLangs == {"hi", "bn", "xx"}

BatchTargets == {"hi", "xx"}

\* 'texts' of the batch requests: at most MaxTexts items
MaxTexts == 2

BatchTexts == SeqsUpTo({<<"h", "i">>}, MaxTexts)

Operations == {"translate", "transliterate", "tts", "summarize"}

\* the fields of a request that the route in hand does not read
body == <<request, language, operation, texts>>

\* what one engine call leaves behind
engineOut == <<engine_result, engine_raised, producer, model_used>>

speech == <<audio_base64, audio_path, temp_files>>

tallies == <<served, engine_calls_at_start, metrics_at_start>>

\* a request arrives: nothing has been answered or computed for it yet; the
\* keys its route does not read keep their defaults
NewRequest ==
    /\ served < MaxRequests
    /\ w_pc \in {"idle", "responded"}
    /\ served' = served + 1
    /\ http_status' = 0
    /\ response_success' = "none"
    /\ engine_result' = "none"
    /\ engine_raised' = FALSE
    /\ producer' = "none"
    /\ model_used' = "none"
    /\ results' = <<>>
    /\ engine_args' = NoEngineCall
    /\ engine_calls_at_start' = engine_calls
    /\ metrics_at_start' = METRICS
    /\ metrics_at_call' = METRICS
    /\ audio_base64' = "None"
    /\ audio_path' = "None"
    /\ UNCHANGED <<engine_calls, METRICS, webConfig, temp_files, webRest>>

\* POST /translate arrives; lines 1093-1096 read the body
ReceiveTranslate ==
    /\ NewRequest
    /\ \E t \in WebTexts, src \in WebLangs, tgt \in WebLangs :
          request' = [text |-> Strip(t), source_lang |-> src, target_lang |-> tgt]
    /\ endpoint' = "translate"
    /\ w_pc' = "validate"
    /\ language' = "hi"
    /\ operation' = "translate"
    /\ texts' = <<>>

\* POST /transliterate arrives; lines 1115-1118 read the body
ReceiveTransliterate ==
    /\ NewRequest
    /\ \E t \in WebTexts, src \in WebLangs, tgt \in WebLangs :
          request' = [text |-> Strip(t), source_lang |-> src, target_lang |-> tgt]
    /\ endpoint' = "transliterate"
    /\ w_pc' = "validate"
    /\ language' = "hi"
    /\ operation' = "translate"
    /\ texts' = <<>>

\* POST /text-to-speech arrives; lines 1134-1136 read the body
ReceiveTextToSpeech ==
    /\ NewRequest
    /\ \E t \in WebTexts, l \in SpeechLangs :
          /\ request' = [NoRequest EXCEPT !.text = Strip(t)]
          /\ language' = l
    /\ endpoint' = "text_to_speech"
    /\ w_pc' = "validate"
    /\ operation' = "translate"
    /\ texts' = <<>>

\* POST /batch-process arrives; lines 1155-1159 read the body
ReceiveBatch ==
    /\ NewRequest
    /\ \E ts \in BatchTexts, o \in Operations, src \in SpeechLangs,
          tgt \in BatchTargets :
          /\ texts' = ts
          /\ operation' = o
          /\ request' = [text |-> <<>>, source_lang |-> src, target_lang |-> tgt]
    /\ endpoint' = "batch_process"
    /\ w_pc' = "validate"
    /\ language' = "hi"

\* what the handlers leave alone while they validate and answer
handlerFrame == <<body, endpoint, results, engine_args, engineOut,
                  engine_calls, METRICS, metrics_at_call, webConfig, speech,
                  tallies, webRest>>

\* lines 1098-1099, 1120-1121, 1138-1139
RejectEmptyText ==
    /\ w_pc = "validate"
    /\ endpoint \in {"translate", "transliterate", "text_to_speech"}
    /\ request.text = <<>>
    /\ http_status' = 400
    /\ response_success' = "false"
    /\ w_pc' = "responded"
    /\ UNCHANGED handlerFrame

\* lines 1101-1102
RejectLanguage ==
    /\ w_pc = "validate"
    /\ endpoint = "translate"
    /\ request.text # <<>>
    /\ ~LanguagesSupported(request.source_lang, request.target_lang)
    /\ http_status' = 400
    /\ response_success' = "false"
    /\ w_pc' = "responded"
    /\ UNCHANGED handlerFrame

\* lines 1141-1142
RejectSpeechLanguage ==
    /\ w_pc = "validate"
    /\ endpoint = "text_to_speech"
    /\ request.text # <<>>
    /\ language \notin TTS_LANGUAGES
    /\ http_status' = 400
    /\ response_success' = "false"
    /\ w_pc' = "responded"
    /\ UNCHANGED handlerFrame

\* lines 1161-1162
RejectNoTexts ==
    /\ w_pc = "validate"
    /\ endpoint = "batch_process"
    /\ texts = <<>>
    /\ http_status' = 400
    /\ response_success' = "false"
    /\ w_pc' = "responded"
    /\ UNCHANGED handlerFrame

\* an engine function is entered with the given language arguments
EnterEngine(fn, langs, first) ==
    /\ engine_args' = [fn |-> fn, langs |-> langs]
    /\ engine_calls' = IF fn = "translate" THEN engine_calls + 1
                       ELSE engine_calls
    /\ metrics_at_call' = METRICS
    /\ engine_result' = "none"
    /\ producer' = "none"
    /\ model_used' = "none"
    /\ w_pc' = first
    /\ UNCHANGED <<body, endpoint, results, http_status, response_success,
                   engine_raised, METRICS, webConfig, speech, tallies, webRest>>

\* line 1104: result = ai_engine.translate(text, source_lang, target_lang)
CallEngineTranslate ==
    /\ w_pc = "validate"
    /\ endpoint = "translate"
    /\ request.text # <<>>
    /\ LanguagesSupported(request.source_lang, request.target_lang)
    /\ EnterEngine("translate", <<request.source_lang, request.target_lang>>,
                   "engine_compute")

\* line 1123: result = ai_engine.transliterate(text, source_lang, target_lang)
CallEngineTransliterate ==
    /\ w_pc = "validate"
    /\ endpoint = "transliterate"
    /\ request.text # <<>>
    /\ EnterEngine("transliterate",
                   <<request.source_lang, request.target_lang>>, "xl_compute")

\* line 1144: result = ai_engine.text_to_speech(text, language)
CallEngineTextToSpeech ==
    /\ w_pc = "validate"
    /\ endpoint = "text_to_speech"
    /\ request.text # <<>>
    /\ language \in TTS_LANGUAGES
    /\ EnterEngine("text_to_speech", <<language>>, "tts_begin")

\* batch_process, lines 1164-1165: the loop over texts is entered
BatchStart ==
    /\ w_pc = "validate"
    /\ endpoint = "batch_process"
    /\ texts # <<>>
    /\ w_pc' = "batch_loop"
    /\ UNCHANGED <<http_status, response_success, handlerFrame>>

\* batch_process, lines 1167-1173: the next text is handed to the engine
\* function the operation names
BatchCallEngine ==
    /\ w_pc = "batch_loop"
    /\ Len(results) < Len(texts)
    /\ \/ /\ operation = "translate"
          /\ EnterEngine("translate",
                         <<request.source_lang, request.target_lang>>,
                         "engine_compute")
       \/ /\ operation = "transliterate"
          /\ EnterEngine("transliterate",
                         <<request.source_lang, request.target_lang>>,
                         "xl_compute")
       \/ /\ operation = "tts"
          /\ EnterEngine("text_to_speech", <<request.source_lang>>,
                         "tts_begin")

\* batch_process, lines 1174-1175: any other operation
BatchInvalidOperation ==
    /\ w_pc = "batch_loop"
    /\ Len(results) < Len(texts)
    /\ operation \notin {"translate", "transliterate", "tts"}
    /\ engine_result' = "false"
    /\ w_pc' = "batch_append"
    /\ UNCHANGED <<body, endpoint, results, engine_args, engine_raised,
                   producer, model_used, http_status, response_success,
                   engine_calls, METRICS, metrics_at_call, webConfig, speech,
                   tallies, webRest>>

\* batch_process, lines 1177-1181: results.append(...)
BatchAppend ==
    /\ w_pc = "batch_append"
    /\ results' = Append(results, engine_result)
    /\ w_pc' = "batch_loop"
    /\ UNCHANGED <<body, endpoint, engine_args, engineOut, http_status,
                   response_success, engine_calls, METRICS, metrics_at_call,
                   webConfig, speech, tallies, webRest>>

\* batch_process, lines 1183-1193: the answer after the last text
BatchRespond ==
    /\ w_pc = "batch_loop"
    /\ Len(results) = Len(texts)
    /\ http_status' = 200
    /\ response_success' = "true"
    /\ w_pc' = "responded"
    /\ UNCHANGED handlerFrame

\* where an engine function returns to
AfterEngine == IF endpoint = "batch_process" THEN "batch_append" ELSE "respond"

\* what a step inside an engine function leaves alone
engineFrame == <<body, endpoint, results, engine_args, http_status,
                 response_success, engine_calls, metrics_at_call, webConfig,
                 tallies, webRest>>

\* SUPPORTED_LANGUAGES[source_lang] and SUPPORTED_LANGUAGES[target_lang] are
\* looked up without a KeyError
NamesFound(langs) == \A k \in 1..Len(langs) : langs[k] \in SUPPORTED_LANGUAGES

\* 'model_used': 'IndicTrans2' if INDIC_TRANS_AVAILABLE else 'Demo Engine'
\* (line 171)
TranslateModelUsed ==
    IF INDIC_TRANS_AVAILABLE THEN "IndicTrans2" ELSE "Demo Engine"

\* BhasaAIEngine.translate, lines 146-154: the text is produced, by the
\* branch for the real engine or by _demo_translate; both look the two
\* language names up
EngineCompute ==
    /\ w_pc = "engine_compute"
    /\ NamesFound(engine_args.langs)
    /\ producer' = IF translation_engine # "None" /\ INDIC_TRANS_AVAILABLE
                   THEN "IndicTrans2" ELSE "Demo Engine"
    /\ w_pc' = "engine_metrics"
    /\ UNCHANGED <<engine_result, engine_raised, model_used, METRICS, speech,
                   engineFrame>>

\* BhasaAIEngine.translate, lines 146-154 raise; lines 175-181 catch the
\* exception and return {'success': False, ...}
EngineComputeRaises ==
    /\ w_pc = "engine_compute"
    /\ engine_raised' = TRUE
    /\ engine_result' = "false"
    /\ w_pc' = AfterEngine
    /\ UNCHANGED <<producer, model_used, METRICS, speech, engineFrame>>

\* BhasaAIEngine.translate, lines 156-173: counters, then the success dict
EngineMetricsReturn ==
    /\ w_pc = "engine_metrics"
    /\ METRICS' = [METRICS EXCEPT
                      !.translation_requests = @ + 1,
                      !.total_requests = @ + 1]
    /\ engine_result' = "true"
    /\ model_used' = TranslateModelUsed
    /\ w_pc' = AfterEngine
    /\ UNCHANGED <<engine_raised, producer, speech, engineFrame>>

\* BhasaAIEngine.transliterate, lines 187-197: the real engine serves target
\* 'hi' and falls back to _demo_transliterate when it raises; every other
\* call goes to _demo_transliterate, which looks the target name up
TransliterateCompute ==
    /\ w_pc = "xl_compute"
    /\ IF transliteration_engine # "None" /\ AI4BHARAT_AVAILABLE
            /\ engine_args.langs[2] = "hi"
       THEN producer' \in {"AI4Bharat", "Demo Engine"}
       ELSE /\ engine_args.langs[2] \in SUPPORTED_LANGUAGES
            /\ producer' = "Demo Engine"
    /\ w_pc' = "xl_metrics"
    /\ UNCHANGED <<engine_result, engine_raised, model_used, METRICS, speech,
                   engineFrame>>

\* _demo_transliterate raises KeyError for an unknown target (line 334);
\* lines 218-224 return {'success': False, ...}
TransliterateComputeRaises ==
    /\ w_pc = "xl_compute"
    /\ ~(transliteration_engine # "None" /\ AI4BHARAT_AVAILABLE
           /\ engine_args.langs[2] = "hi")
    /\ engine_args.langs[2] \notin SUPPORTED_LANGUAGES
    /\ engine_raised' = TRUE
    /\ engine_result' = "false"
    /\ w_pc' = AfterEngine
    /\ UNCHANGED <<producer, model_used, METRICS, speech, engineFrame>>

\* BhasaAIEngine.transliterate, lines 199-203: the counters
TransliterateMetrics ==
    /\ w_pc = "xl_metrics"
    /\ METRICS' = [METRICS EXCEPT
                      !.transliteration_requests = @ + 1,
                      !.total_requests = @ + 1]
    /\ w_pc' = "xl_return"
    /\ UNCHANGED <<engineOut, speech, engineFrame>>

\* BhasaAIEngine.transliterate, lines 205-216: the success dict
TransliterateReturn ==
    /\ w_pc = "xl_return"
    /\ NamesFound(engine_args.langs)
    /\ engine_result' = "true"
    /\ model_used' = IF AI4BHARAT_AVAILABLE THEN "AI4Bharat" ELSE "Demo Engine"
    /\ w_pc' = AfterEngine
    /\ UNCHANGED <<engine_raised, producer, METRICS, speech, engineFrame>>

\* the success dict looks an unknown language name up (lines 209-210):
\* KeyError, caught at lines 218-224
TransliterateReturnRaises ==
    /\ w_pc = "xl_return"
    /\ ~NamesFound(engine_args.langs)
    /\ engine_raised' = TRUE
    /\ engine_result' = "false"
    /\ w_pc' = AfterEngine
    /\ UNCHANGED <<producer, model_used, METRICS, speech, engineFrame>>

\* BhasaAIEngine.text_to_speech, lines 231-240: with the TTS libraries the
\* temporary file is created (delete=False)
SpeechBegin ==
    /\ w_pc = "tts_begin"
    /\ audio_base64' = "None"
    /\ IF TTS_AVAILABLE
       THEN /\ audio_path' = "tmp"
            /\ temp_files' = temp_files + 1
            /\ w_pc' = "tts_synthesize"
       ELSE /\ UNCHANGED <<audio_path, temp_files>>
            /\ w_pc' = "tts_metrics"
    /\ UNCHANGED <<engineOut, METRICS, engineFrame>>

\* lines 242-249: gTTS, save, read back, os.unlink(audio_path)
SpeechSynthesize ==
    /\ w_pc = "tts_synthesize"
    /\ audio_base64' = "data"
    /\ audio_path' = "None"
    /\ temp_files' = temp_files - 1
    /\ w_pc' = "tts_metrics"
    /\ UNCHANGED <<engineOut, METRICS, engineFrame>>

\* lines 242-253: gTTS, save or the read raises; the handler sets
\* audio_base64 = None and does not touch the file
SpeechSynthesizeRaises ==
    /\ w_pc = "tts_synthesize"
    /\ audio_base64' = "None"
    /\ w_pc' = "tts_metrics"
    /\ UNCHANGED <<audio_path, temp_files, engineOut, METRICS, engineFrame>>

\* lines 258-262: the counters
SpeechMetrics ==
    /\ w_pc = "tts_metrics"
    /\ METRICS' = [METRICS EXCEPT
                      !.tts_requests = @ + 1,
                      !.total_requests = @ + 1]
    /\ w_pc' = "tts_return"
    /\ UNCHANGED <<engineOut, speech, engineFrame>>

\* lines 264-275: the success dict
SpeechReturn ==
    /\ w_pc = "tts_return"
    /\ NamesFound(engine_args.langs)
    /\ engine_result' = "true"
    /\ producer' = IF audio_base64 = "None" THEN "Demo Mode" ELSE "Google TTS"
    /\ model_used' = IF audio_base64 = "None" THEN "Demo Mode" ELSE "Google TTS"
    /\ w_pc' = AfterEngine
    /\ UNCHANGED <<engine_raised, METRICS, speech, engineFrame>>

\* the success dict looks an unknown language name up (line 267): KeyError,
\* caught at lines 277-283
SpeechReturnRaises ==
    /\ w_pc = "tts_return"
    /\ ~NamesFound(engine_args.langs)
    /\ engine_raised' = TRUE
    /\ engine_result' = "false"
    /\ w_pc' = AfterEngine
    /\ UNCHANGED <<producer, model_used, METRICS, speech, engineFrame>>

\* lines 1105, 1124, 1145: return jsonify(result), with Flask's default
\* status 200
RespondTranslate ==
    /\ w_pc = "respond"
    /\ http_status' = 200
    /\ response_success' = engine_result
    /\ w_pc' = "responded"
    /\ UNCHANGED handlerFrame

\* the server after start-up: ai_engine = BhasaAIEngine() (lines 31-53,
\* 102-140)
InitWeb ==
    /\ DriverIdle
    /\ LoaderIdle
    /\ GreedyIdle
    /\ XlitIdle
    /\ ThreadsIdle
    /\ w_pc = "idle"
    /\ request = NoRequest
    /\ http_status = 0
    /\ response_success = "none"
    /\ engine_result = "none"
    /\ engine_raised = FALSE
    /\ engine_calls = 0
    /\ METRICS = ZeroMetrics
    /\ INDIC_TRANS_AVAILABLE \in BOOLEAN
    /\ translation_engine \in
          IF INDIC_TRANS_AVAILABLE THEN {"IndicTransInference", "None"}
          ELSE {"None"}
    /\ served = 0
    /\ engine_calls_at_start = 0
    /\ metrics_at_start = ZeroMetrics
    /\ endpoint = "none"
    /\ language = "hi"
    /\ operation = "translate"
    /\ texts = <<>>
    /\ results = <<>>
    /\ engine_args = NoEngineCall
    /\ AI4BHARAT_AVAILABLE \in BOOLEAN
    /\ transliteration_engine \in
          IF AI4BHARAT_AVAILABLE THEN {"XlitEngine", "None"} ELSE {"None"}
    /\ TTS_AVAILABLE \in BOOLEAN
    /\ producer = "none"
    /\ model_used = "none"
    /\ audio_base64 = "None"
    /\ audio_path = "None"
    /\ temp_files = 0
    /\ metrics_at_call = ZeroMetrics

NextWeb ==
    \/ ReceiveTranslate
    \/ ReceiveTransliterate
    \/ ReceiveTextToSpeech
    \/ ReceiveBatch
    \/ RejectEmptyText
    \/ RejectLanguage
    \/ RejectSpeechLanguage
    \/ RejectNoTexts
    \/ CallEngineTranslate
    \/ CallEngineTransliterate
    \/ CallEngineTextToSpeech
    \/ BatchStart
    \/ BatchCallEngine
    \/ BatchInvalidOperation
    \/ BatchAppend
    \/ BatchRespond
    \/ EngineCompute
    \/ EngineComputeRaises
    \/ EngineMetricsReturn
    \/ TransliterateCompute
    \/ TransliterateComputeRaises
    \/ TransliterateMetrics
    \/ TransliterateReturn
    \/ TransliterateReturnRaises
    \/ SpeechBegin
    \/ SpeechSynthesize
    \/ SpeechSynthesizeRaises
    \/ SpeechMetrics
    \/ SpeechReturn
    \/ SpeechReturnRaises
    \/ RespondTranslate

SpecWeb == InitWeb /\ [][NextWeb]_vars

\* ------------------------- the transliteration service (transliteration/test.py)
SUPPORTED_LANGS == {"ta", "hi", "te"}

\* the requests the service is driven with
MaxXlitSents == 3

XlitSentences == {"vanakkam", "nandri"}

XlitLangs == {"ta", "hi", "xx"}

BeamWidths == {0, 1, 10, 20, 21}

\* req.beam_width < 1 or req.beam_width > 20 (line 41), negated
BeamWidthValid_lowerOnly(b) == b >= 1

BeamWidthValid(b) == ~(b < 1 \/ b > 20)

\* engine.translit_sentence(sentence)[req.lang] of the engine double
Translit(lang, sentence) == <<lang, sentence>>

xlitRest == <<driverAll, loaderVars, greedyVars, webVars, webMore, threadVars>>

\* POST /transliterate arrives with a body that fits TransliterationRequest
XlitReceive ==
    /\ x_pc \in {"idle", "responded"}
    /\ x_served < MaxRequests
    /\ \E S \in SeqsUpTo(XlitSentences, MaxXlitSents), l \in XlitLangs,
          b \in BeamWidths :
          req' = [sentences |-> S, lang |-> l, beam_width |-> b]
    /\ x_served' = x_served + 1
    /\ x_status' = 0
    /\ x_detail' = "none"
    /\ engine' = "none"
    /\ translit_calls' = 0
    /\ x_result' = <<>>
    /\ x_body' = <<>>
    /\ x_failed_at' = 0
    /\ x_pc' = "validate"
    /\ UNCHANGED xlitRest

\* raise HTTPException(status_code=..., detail=...)
RaiseHTTP(status, detail) ==
    /\ x_status' = status
    /\ x_detail' = detail
    /\ x_body' = <<>>
    /\ x_pc' = "responded"

\* lines 35-37
RejectNoSentences ==
    /\ x_pc = "validate"
    /\ req.sentences = <<>>
    /\ RaiseHTTP(400, "No sentences provided")
    /\ UNCHANGED <<req, engine, translit_calls, x_result, x_served,
                   x_failed_at, xlitRest>>

\* lines 38-40
RejectXlitLanguage ==
    /\ x_pc = "validate"
    /\ req.sentences # <<>>
    /\ req.lang \notin SUPPORTED_LANGS
    /\ RaiseHTTP(400, "Unsupported language")
    /\ UNCHANGED <<req, engine, translit_calls, x_result, x_served,
                   x_failed_at, xlitRest>>

\* lines 41-43
RejectBeamWidth ==
    /\ x_pc = "validate"
    /\ req.sentences # <<>>
    /\ req.lang \in SUPPORTED_LANGS
    /\ ~BeamWidthValid(req.beam_width)
    /\ RaiseHTTP(400, "beam_width must be between 1 and 20")
    /\ UNCHANGED <<req, engine, translit_calls, x_result, x_served,
                   x_failed_at, xlitRest>>

\* lines 47-50: engine = XlitEngine(req.lang, beam_width=req.beam_width)
BuildEngine ==
    /\ x_pc = "validate"
    /\ req.sentences # <<>>
    /\ req.lang \in SUPPORTED_LANGS
    /\ BeamWidthValid(req.beam_width)
    /\ engine' = req.lang
    /\ x_pc' = "loop"
    /\ UNCHANGED <<req, x_status, x_detail, translit_calls, x_result, x_body,
                   x_served, x_failed_at, xlitRest>>

\* lines 51-52: the constructor raises
BuildEngineRaises ==
    /\ x_pc = "validate"
    /\ req.sentences # <<>>
    /\ req.lang \in SUPPORTED_LANGS
    /\ BeamWidthValid(req.beam_width)
    /\ RaiseHTTP(500, "Engine init failed")
    /\ UNCHANGED <<req, engine, translit_calls, x_result, x_served,
                   x_failed_at, xlitRest>>

\* lines 56-61: the next sentence is transliterated and appended
TranslitSentence ==
    /\ x_pc = "loop"
    /\ Len(x_result) < Len(req.sentences)
    /\ LET sentence == req.sentences[Len(x_result) + 1]
       IN x_result' = Append(x_result,
                             [original |-> sentence,
                              transliterated |-> Translit(engine, sentence)])
    /\ translit_calls' = translit_calls + 1
    /\ UNCHANGED <<x_pc, req, x_status, x_detail, engine, x_body, x_served,
                   x_failed_at, xlitRest>>

\* lines 62-64: translit_sentence raises
TranslitSentenceRaises_partial ==
    /\ x_pc = "loop"
    /\ Len(x_result) < Len(req.sentences)
    /\ translit_calls' = translit_calls + 1
    /\ x_failed_at' = Len(x_result) + 1
    /\ x_status' = 200
    /\ x_body' = x_result
    /\ x_pc' = "responded"
    /\ UNCHANGED <<req, x_detail, engine, x_result, x_served, xlitRest>>

TranslitSentenceRaises ==
    /\ x_pc = "loop"
    /\ Len(x_result) < Len(req.sentences)
    /\ translit_calls' = translit_calls + 1
    /\ x_failed_at' = Len(x_result) + 1
    /\ RaiseHTTP(500, "Transliteration failed")
    /\ UNCHANGED <<req, engine, x_result, x_served, xlitRest>>

\* line 67: return result
XlitReturn ==
    /\ x_pc = "loop"
    /\ Len(x_result) = Len(req.sentences)
    /\ x_status' = 200
    /\ x_body' = x_result
    /\ x_pc' = "responded"
    /\ UNCHANGED <<req, x_detail, engine, translit_calls, x_result, x_served,
                   x_failed_at, xlitRest>>

InitXlit == DriverIdle /\ LoaderIdle /\ GreedyIdle /\ ServicesIdle

NextXlit ==
    \/ XlitReceive
    \/ RejectNoSentences
    \/ RejectXlitLanguage
    \/ RejectBeamWidth
    \/ BuildEngine
    \/ BuildEngineRaises
    \/ TranslitSentence
    \/ TranslitSentenceRaises
    \/ XlitReturn

SpecXlit == InitXlit /\ [][NextXlit]_vars

\* ------------------------------------- request threads of the demo server
\* app.run(..., threaded=True): every request runs its engine call on a thread
\* of its own; METRICS[...] += 1 is a read of the counter followed by a write
\* of the value read plus one, with nothing that keeps another thread out
\* between the two
MaxThreadCalls == 3

EngineFunctions == {"translate", "transliterate", "text_to_speech"}

\* the counter of each engine function
OwnCounter(fn) ==
    IF fn = "translate" THEN "translation_requests"
    ELSE IF fn = "transliterate" THEN "transliteration_requests"
    ELSE "tts_requests"

\* engine calls started so far
ThreadCallsStarted ==
    th_reached + Cardinality({t \in Threads : th_pc[t] = "compute"})

threadRest == <<driverAll, loaderVars, greedyVars, xlitVars, webMore,
                w_pc, request, http_status, response_success, engine_result,
                engine_raised, engine_calls, INDIC_TRANS_AVAILABLE,
                translation_engine, served, engine_calls_at_start,
                metrics_at_start>>

\* a request thread enters translate, transliterate or text_to_speech
ThreadCall ==
    \E t \in Threads, fn \in EngineFunctions :
        /\ th_pc[t] \in {"idle", "done"}
        /\ ThreadCallsStarted < MaxThreadCalls
        /\ th_pc' = [th_pc EXCEPT ![t] = "compute"]
        /\ th_fn' = [th_fn EXCEPT ![t] = fn]
        /\ UNCHANGED <<th_loaded, th_reached, METRICS, threadRest>>

\* the text is produced and the counter update is reached: the read of
\* METRICS['<own>_requests'] (lines 157, 200, 259)
ThreadLoadOwn ==
    \E t \in Threads :
        /\ th_pc[t] = "compute"
        /\ th_loaded' = [th_loaded EXCEPT ![t] = METRICS[OwnCounter(th_fn[t])]]
        /\ th_reached' = th_reached + 1
        /\ th_pc' = [th_pc EXCEPT ![t] = "store_own"]
        /\ UNCHANGED <<th_fn, METRICS, threadRest>>

\* the call raises before the counters: success = False is returned
ThreadRaises ==
    \E t \in Threads :
        /\ th_pc[t] = "compute"
        /\ th_pc' = [th_pc EXCEPT ![t] = "done"]
        /\ UNCHANGED <<th_fn, th_loaded, th_reached, METRICS, threadRest>>

\* the write of METRICS['<own>_requests']
ThreadStoreOwn ==
    \E t \in Threads :
        /\ th_pc[t] = "store_own"
        /\ METRICS' = [METRICS EXCEPT ![OwnCounter(th_fn[t])] = th_loaded[t] + 1]
        /\ th_pc' = [th_pc EXCEPT ![t] = "load_total"]
        /\ UNCHANGED <<th_fn, th_loaded, th_reached, threadRest>>

\* the read of METRICS['total_requests'] (lines 158, 201, 260)
ThreadLoadTotal ==
    \E t \in Threads :
        /\ th_pc[t] = "load_total"
        /\ th_loaded' = [th_loaded EXCEPT ![t] = METRICS.total_requests]
        /\ th_pc' = [th_pc EXCEPT ![t] = "store_total"]
        /\ UNCHANGED <<th_fn, th_reached, METRICS, threadRest>>

\* the write of METRICS['total_requests']; the rest of the call does not
\* touch the counters
ThreadStoreTotal ==
    \E t \in Threads :
        /\ th_pc[t] = "store_total"
        /\ METRICS' = [METRICS EXCEPT !.total_requests = th_loaded[t] + 1]
        /\ th_pc' = [th_pc EXCEPT ![t] = "done"]
        /\ UNCHANGED <<th_fn, th_loaded, th_reached, threadRest>>

InitThreads == DriverIdle /\ LoaderIdle /\ GreedyIdle /\ ServicesIdle

NextThreads ==
    \/ ThreadCall
    \/ ThreadLoadOwn
    \/ ThreadRaises
    \/ ThreadStoreOwn
    \/ ThreadLoadTotal
    \/ ThreadStoreTotal

SpecThreads == InitThreads /\ [][NextThreads]_vars

\* ------------------------------------------------------------ properties
CeilDiv(n, d) == (n + d - 1) \div d

RECURSIVE Flatten(_)
Flatten(bs) == IF bs = <<>> THEN <<>> ELSE Head(bs) \o Flatten(Tail(bs))

HasSoftHyphen(sent) == \E k \in 1..Len(sent) : sent[k] = "SHY"

Registered(lang) == lang \in DOMAIN flores_codes

BatchTranslateDone == pc = "done" /\ op = "batch_translate"

\* split_sentences has handed its sentence list to its caller
SplitReturned ==
    \/ pc = "done" /\ op = "split_sentences"
    \/ pc = "split_return"

\* C1: a finished batch_translate call on a non-empty sentence list returns
\* exactly one string per input sentence, and the string at position k is the
\* stub model's translation of the sentence at position k.
C1_PositionsPreserved ==
    (BatchTranslateDone /\ input_sentences # <<>>) =>
        /\ Len(result) = Len(input_sentences)
        /\ \A k \in 1..Len(input_sentences) :
              result[k] = Translation(input_sentences[k])

\* a call whose input spans more than one batch and whose first and last
\* sentences differ has returned
C1_Witness ==
    /\ BatchTranslateDone
    /\ Len(input_sentences) > BATCH_SIZE
    /\ input_sentences[1] # input_sentences[Len(input_sentences)]
    /\ result[Len(result)] = Translation(input_sentences[Len(input_sentences)])

\* C2: the list a finished batch_translate call returns is the list the same
\* call returns under every other positive batch size, from 1 up to a size
\* larger than the input.
C2_BatchingTransparent ==
    BatchTranslateDone =>
        \A b \in 1..(MaxSents + 1) :
            result = batch_translate(input_sentences, src_lang, tgt_lang, b)

\* a call on sentences of different lengths, cut into several batches of more
\* than one sentence, has returned
C2_Witness ==
    /\ BatchTranslateDone
    /\ BATCH_SIZE > 1
    /\ Len(batches) > 1
    /\ \E j, k \in 1..Len(input_sentences) :
          Len(input_sentences[j]) # Len(input_sentences[k])
    /\ result = batch_translate(input_sentences, src_lang, tgt_lang, 1)

\* C3: the slices batch_translate takes are contiguous and in input order:
\* each holds between 1 and BATCH_SIZE sentences, each but the last holds
\* exactly BATCH_SIZE, their concatenation is the part of the input consumed
\* so far, and at the return it is the whole input.
C3_ContiguousPartition ==
    op \in {"batch_translate", "translate_paragraph"} =>
        /\ \A k \in 1..Len(batches) :
              /\ Len(batches[k]) \in 1..BATCH_SIZE
              /\ k < Len(batches) => Len(batches[k]) = BATCH_SIZE
        /\ Flatten(batches) = SubSeq(input_sentences, 1, Len(Flatten(batches)))
        /\ pc \in {"done", "join"} => Flatten(batches) = input_sentences

\* a call has returned after a full batch followed by a smaller last batch
C3_Witness ==
    /\ BatchTranslateDone
    /\ Len(batches) >= 2
    /\ Len(batches[1]) = BATCH_SIZE
    /\ Len(batches[Len(batches)]) < BATCH_SIZE

\* C4: a finished batch_translate call on n sentences has invoked generate
\* exactly ceil(n / BATCH_SIZE) times, repeated sentences included, and a
\* repetition of the call on the same mock invokes it that many times again.
C4_OneGeneratePerBatch ==
    BatchTranslateDone =>
        /\ model_calls - calls_at_start =
              CeilDiv(Len(input_sentences), BATCH_SIZE)
        /\ model_calls = ncalls * CeilDiv(Len(input_sentences), BATCH_SIZE)
        /\ (BATCH_SIZE = 1 /\ Len(input_sentences) = 2 /\ ncalls = 1)
              => model_calls = 2

\* the second call with the same input, which holds a repeated sentence, has
\* returned
C4_Witness ==
    /\ BatchTranslateDone
    /\ ncalls = 2
    /\ Len(input_sentences) >= 2
    /\ input_sentences[1] = input_sentences[2]
    /\ model_calls = 2 * CeilDiv(Len(input_sentences), BATCH_SIZE)
    /\ model_calls > 0

\* position of the first character of the k-th part in a single-space join
RECURSIVE JoinOffset(_, _)
JoinOffset(parts, k) ==
    IF k <= 1 THEN 0 ELSE JoinOffset(parts, k - 1) + Len(parts[k - 1]) + 1

\* C5: the string translate_paragraph returns holds the translations of the
\* split sentences in order, each at its place, with exactly one space between
\* two consecutive ones and nothing before the first or after the last.
C5_JoinedBySingleSpaces ==
    (pc = "done" /\ op = "translate_paragraph") =>
        LET n == Len(translations)
        IN /\ n = Len(input_sentences)
           /\ \A k \in 1..n : translations[k] = Translation(input_sentences[k])
           /\ n = 0 => result = <<>>
           /\ n > 0 =>
                /\ Len(result) = JoinOffset(translations, n) + Len(translations[n])
                /\ \A k \in 1..n :
                      /\ SubSeq(result, JoinOffset(translations, k) + 1,
                                JoinOffset(translations, k) + Len(translations[k]))
                            = translations[k]
                      /\ k < n =>
                            result[JoinOffset(translations, k)
                                   + Len(translations[k]) + 1] = " "

\* a paragraph of three non-empty sentences has been translated and joined
C5_Witness ==
    /\ pc = "done"
    /\ op = "translate_paragraph"
    /\ Len(translations) = 3
    /\ \A k \in 1..3 : translations[k] # <<>>
    /\ Len(result) = Len(translations[1]) + Len(translations[2])
                       + Len(translations[3]) + 2

\* C6 as claimed: for eng_Latn the result has as many segments as the
\* splitter that found more of them.
C6_GreaterCountChosen ==
    (pc = "done" /\ op = "split_sentences" /\ src_lang = "eng_Latn") =>
        Len(result) = Max(Len(sents_nltk), Len(sents_moses))

\* C6 amended: for eng_Latn the result is the soft-hyphen-stripped NLTK
\* segmentation when NLTK found strictly fewer segments than Moses, and the
\* stripped Moses segmentation otherwise; it has as many segments as the
\* splitter that found fewer (3 when the counts are 3 and 5).
C6_FewerCountChosen ==
    (pc = "done" /\ op = "split_sentences" /\ src_lang = "eng_Latn") =>
        LET src == IF Len(sents_nltk) < Len(sents_moses)
                   THEN sents_nltk ELSE sents_moses
        IN /\ Len(result) = Min(Len(sents_nltk), Len(sents_moses))
           /\ Len(result) = Len(src)
           /\ \A k \in 1..Len(src) : result[k] = StripSoftHyphen(src[k])
           /\ {Len(sents_nltk), Len(sents_moses)} = {3, 5} => Len(result) = 3

\* one splitter found 3 segments, the other 5, and the split has returned
C6_Witness ==
    /\ pc = "done"
    /\ op = "split_sentences"
    /\ src_lang = "eng_Latn"
    /\ {Len(sents_nltk), Len(sents_moses)} = {3, 5}
    /\ Len(result) = 3

\* C7 as claimed: no sentence split_sentences returns holds a soft hyphen,
\* whatever the registered language.
C7_NoSoftHyphenAnyLanguage ==
    (SplitReturned /\ Registered(src_lang)) =>
        \A k \in 1..Len(input_sentences) : ~HasSoftHyphen(input_sentences[k])

\* C7 amended: for eng_Latn no sentence split_sentences returns holds a soft
\* hyphen.
C7_NoSoftHyphenEnglish ==
    (SplitReturned /\ src_lang = "eng_Latn") =>
        \A k \in 1..Len(input_sentences) : ~HasSoftHyphen(input_sentences[k])

\* an English text with two soft hyphens has been split into sentences
C7_Witness ==
    /\ SplitReturned
    /\ src_lang = "eng_Latn"
    /\ Cardinality({k \in 1..Len(input_text) : input_text[k] = "SHY"}) >= 2
    /\ input_sentences # <<>>
    /\ \A k \in 1..Len(input_sentences) : ~HasSoftHyphen(input_sentences[k])

\* C8: no sentence split_sentences returns is the empty string.
C8_NoEmptySentence ==
    SplitReturned =>
        \A k \in 1..Len(input_sentences) : input_sentences[k] # <<>>

\* C9: a split_sentences or translate_paragraph call whose (source) language
\* tag has no entry in flores_codes ends in the lookup error: it never
\* returns, no sentence list is produced, and neither the tokenizer nor the
\* model is invoked.
C9_UnregisteredSplitFails ==
    (op \in {"split_sentences", "translate_paragraph"}
        /\ ~Registered(src_lang) /\ pc # "split") =>
        /\ pc = "raised"
        /\ error = "KeyError"
        /\ result = <<>>
        /\ input_sentences = <<>>
        /\ batches = <<>>
        /\ tokenizer_calls = 0
        /\ model_calls = 0

\* translate_paragraph with an unregistered source tag has failed
C9_Witness ==
    /\ op = "translate_paragraph"
    /\ ~Registered(src_lang)
    /\ input_text # <<>>
    /\ pc = "raised"
    /\ error = "KeyError"

\* C10: batch_translate with an unregistered source or target tag fails
\* before the tokenizer or the model is invoked, and never returns a result.
C10_UnregisteredTranslateFails ==
    (op = "batch_translate" /\ (~Registered(src_lang) \/ ~Registered(tgt_lang))) =>
        /\ tokenizer_calls = 0
        /\ model_calls = 0
        /\ pc # "done"

\* ------------------------------------------------- failures and resources
InBatchTranslate == op \in {"batch_translate", "translate_paragraph"}

GenerateFailed == failed_batch # -1

\* the statements of one loop iteration, in program order
StepOrder == <<"preprocess", "encode", "generate", "decode", "postprocess",
               "append", "release">>

\* C11: once generate has raised, the call has ended in that error and has
\* handed nothing to its caller, whatever was accumulated before.
C11_NoPartialResult ==
    GenerateFailed =>
        /\ pc = "raised"
        /\ error = "RuntimeError"
        /\ result = <<>>

\* generate raised at a later batch, after translations had been accumulated
C11_Witness ==
    /\ InBatchTranslate
    /\ failed_batch >= 1
    /\ translations # <<>>
    /\ pc = "raised"
    /\ result = <<>>

\* C12: within one call generate is invoked at most once per batch taken, and
\* when it has raised at batch k it has been invoked exactly k + 1 times: once
\* for each of the batches 0..k, never again for batch k and for no later one.
C12_NoRetryAfterFailure ==
    InBatchTranslate =>
        /\ model_calls - calls_at_start <= Len(batches)
        /\ \A p, q \in 1..Len(steps) :
              (steps[p] = steps[q] /\ steps[p][2] = "generate") => p = q
        /\ GenerateFailed =>
              /\ model_calls - calls_at_start = failed_batch + 1
              /\ Len(batches) = failed_batch + 1
              /\ steps[Len(steps)] = <<failed_batch, "generate">>

\* generate raised at a batch that is neither the first nor the last
C12_Witness ==
    /\ InBatchTranslate
    /\ pc = "raised"
    /\ failed_batch >= 1
    /\ Len(input_sentences) > (failed_batch + 1) * BATCH_SIZE
    /\ model_calls - calls_at_start = failed_batch + 1

\* C13: when generate raises for batch k the caller sees a model-invocation
\* error that carries k.
C13_ErrorCarriesBatchIndex ==
    GenerateFailed =>
        /\ error = "ModelInvocationError"
        /\ error_batch = failed_batch

\* C14: with a non-positive BATCH_SIZE a batch_translate call on a non-empty
\* input ends in an error before any preprocessing, tokenizer or model call,
\* and never returns.
C14_NonPositiveBatchSizeFails ==
    (op = "batch_translate" /\ BATCH_SIZE <= 0 /\ input_sentences # <<>>
        /\ pc # "bt_loop") =>
        /\ pc = "raised"
        /\ steps = <<>>
        /\ tokenizer_calls = 0
        /\ model_calls = 0

\* C15: the statements run batch after batch in program order, the encoded
\* inputs of at most one batch are alive at any time, and none is alive when
\* the next batch is sliced, preprocessed or encoded.
C15_BatchSequential ==
    InBatchTranslate =>
        /\ \A p \in 1..Len(steps) :
              steps[p] = <<(p - 1) \div 7, StepOrder[((p - 1) % 7) + 1]>>
        /\ Cardinality(held) <= 1
        /\ pc \in {"bt_loop", "bt_preprocess", "bt_tokenize", "join", "done"}
              => held = {}
        /\ pc \in {"bt_generate", "bt_decode", "bt_postprocess", "bt_release"}
              => held = {BatchNo}

\* a call of at least two batches has returned
C15_Witness ==
    /\ InBatchTranslate
    /\ pc = "done"
    /\ Len(steps) >= 14
    /\ steps[8] = <<1, "preprocess">>
    /\ held = {}

\* C16: when the call has ended because generate raised, the encoded inputs
\* of the failing batch have been dropped and the device cache emptied for it.
C16_ReleasedOnError ==
    (pc = "raised" /\ GenerateFailed) =>
        /\ held = {}
        /\ inputs = <<>>
        /\ cache_emptied = failed_batch + 1

\* the requested implementation can be used on this machine
AttentionAvailable ==
    \/ requested_attn = "eager"
    \/ requested_attn = "flash_attention_2"
          /\ flash_attn_2_available /\ flash_attn_ge_2_10

\* C17: the model is loaded with the requested attention implementation when
\* that one is available, and with eager only when it is not.
C17_RequestedAttentionLoaded ==
    l_pc = "returned" =>
        model.attn = IF AttentionAvailable THEN requested_attn ELSE "eager"

\* C18: no generated token sequence is longer than max_length: neither a row
\* model.generate hands to batch_decode in batch_translate, nor the
\* generated_ids of the greedy decoding loop.
C18_LengthWithinMax ==
    /\ pc = "bt_decode" =>
          \A k \in 1..Len(generated_tokens) : Len(generated_tokens[k]) <= max_length
    /\ g_pc # "idle" => generated_len <= max_length

UnsupportedRequest ==
    /\ served > 0
    /\ endpoint = "translate"
    /\ ~(request.source_lang \in SUPPORTED_LANGUAGES
           /\ request.target_lang \in SUPPORTED_LANGUAGES)

\* C19: a POST /translate whose source_lang or target_lang is not a supported
\* language is answered with a 4xx status, and while it is served the engine
\* is not called and the METRICS counters stay as they were.
C19_UnsupportedLanguageRejected ==
    UnsupportedRequest =>
        /\ w_pc \in {"validate", "responded"}
        /\ w_pc = "responded" => http_status \in 400..499
        /\ engine_calls = engine_calls_at_start
        /\ METRICS = metrics_at_start

\* after a served translation, a request with text and an unsupported target
\* language has been answered
C19_Witness ==
    /\ UnsupportedRequest
    /\ request.text # <<>>
    /\ request.source_lang \in SUPPORTED_LANGUAGES
    /\ w_pc = "responded"
    /\ http_status = 400
    /\ METRICS.total_requests = 1
    /\ engine_calls = 1

\* C20: when an exception was raised inside the engine's translate, the
\* response to the request has a 5xx status.
C20_EngineFailureIs5xx ==
    (w_pc = "responded" /\ endpoint = "translate" /\ engine_raised) =>
        http_status \in 500..599
\* C21: the greedy decoding loop ends at the first step by which every row has
\* produced EOS, at that step or at an earlier one: no further iteration is
\* started once every row has produced EOS, and the loop does not end before
\* that unless max_length iterations have run.
C21_StopsWhenAllRowsSawEos ==
    /\ (g_pc = "loop" /\ g_iter < max_length) => eos_seen # Rows
    /\ (g_pc \in {"decode", "done"} /\ g_iter < max_length) => eos_seen = Rows

\* ------------------------------------------------ frame and empty input
\* C22: batch_translate and split_sentences leave their arguments and the
\* shared configuration alone: no step of a running call changes the caller's
\* sentence list, the text, the language tags, BATCH_SIZE or DEVICE, on the
\* way to a result or to an error; and a batch_translate call repeated with
\* the same arguments and the same deterministic model returns what the
\* first call returned.
C22_ArgumentsAndConfigUnchanged ==
    /\ [][/\ BATCH_SIZE' = BATCH_SIZE
          /\ DEVICE' = DEVICE
          /\ op = "batch_translate" =>
                /\ input_sentences' = input_sentences
                /\ src_lang' = src_lang
                /\ tgt_lang' = tgt_lang
          /\ op \in {"split_sentences", "translate_paragraph"} =>
                /\ input_text' = input_text
                /\ src_lang' = src_lang
                /\ tgt_lang' = tgt_lang]_vars
    /\ [](BatchTranslateDone /\ ncalls >= 2 => result = prev_result)

\* a batch_translate call of several batches has been repeated and has
\* returned the same translations, the sentence list still in place
C22_Witness ==
    /\ BatchTranslateDone
    /\ ncalls = 2
    /\ Len(input_sentences) > BATCH_SIZE
    /\ Len(result) = Len(input_sentences)
    /\ result = prev_result

\* C23: batch_translate on an empty sentence sequence returns the empty
\* sequence without running the preprocessor, the tokenizer or the model,
\* whatever the language tags; translate_paragraph whose split yields no
\* sentence runs none of them either and returns the empty string.
C23_EmptyInputNoWork ==
    (InBatchTranslate /\ input_sentences = <<>>
        /\ pc \in {"bt_preprocess", "bt_tokenize", "bt_generate", "bt_decode",
                   "bt_postprocess", "bt_release", "join", "done", "raised"}
        /\ error # "KeyError") =>
        /\ pc \in {"join", "done"}
        /\ steps = <<>>
        /\ batches = <<>>
        /\ tokenizer_calls = 0
        /\ model_calls = calls_at_start
        /\ pc = "done" => result = <<>>

\* batch_translate has returned for an empty list and unregistered tags
C23_Witness ==
    /\ BatchTranslateDone
    /\ input_sentences = <<>>
    /\ ~Registered(src_lang)
    /\ ~Registered(tgt_lang)
    /\ result = <<>>
    /\ steps = <<>>

\* ------------------------------------------------- the demo server engine
\* no request thread is inside an engine call
ThreadsQuiescent == \A t \in Threads : th_pc[t] \in {"idle", "done"}

\* C24: with requests served on concurrent threads, once every in-flight
\* request has completed total_requests equals the sum of the three
\* per-function counters and equals the number of engine calls that reached
\* the counter update: no interleaving loses an update.
C24_NoLostUpdate ==
    ThreadsQuiescent =>
        /\ METRICS.total_requests =
              METRICS.translation_requests + METRICS.transliteration_requests
                + METRICS.tts_requests
        /\ METRICS.total_requests = th_reached

\* an engine function has just returned its dict to the handler
EngineReturned ==
    /\ w_pc \in {"respond", "batch_append"}
    /\ engine_args.fn # "none"

\* C25: an engine call that returns success = False leaves every METRICS
\* counter as it was when the call was entered; in particular a POST
\* /transliterate with an unsupported source_lang ends with success = False
\* and with the counters the request found.
C25_FailedCallLeavesMetrics ==
    /\ (EngineReturned /\ engine_result = "false") => METRICS = metrics_at_call
    /\ (endpoint = "transliterate" /\ w_pc = "responded"
          /\ request.text # <<>>
          /\ request.source_lang \notin SUPPORTED_LANGUAGES) =>
          /\ response_success = "false"
          /\ METRICS = metrics_at_start

\* C26: over every endpoint, translate is only entered with a source and a
\* target code in SUPPORTED_LANGUAGES and text_to_speech only with a language
\* in TTS_LANGUAGES.
C26_EngineArgumentsValidated ==
    /\ engine_args.fn = "translate" => NamesFound(engine_args.langs)
    /\ engine_args.fn = "text_to_speech" =>
          engine_args.langs[1] \in TTS_LANGUAGES

\* C27: when the text of a successful translate or transliterate call came
\* from the demo fallback, model_used is 'Demo Engine'.
C27_ModelUsedNamesProducer ==
    (EngineReturned /\ engine_result = "true"
        /\ engine_args.fn \in {"translate", "transliterate"}
        /\ producer = "Demo Engine") =>
        model_used = "Demo Engine"

\* C28: outside the synthesis step of text_to_speech no temporary audio file
\* exists: every file a call created is gone when the call returns.
C28_TempFilesDeleted ==
    w_pc # "tts_synthesize" => temp_files = 0

\* ------------------------------------------- the transliteration service
\* the request in hand fails one of the three checks of lines 35-43
InvalidXlitRequest ==
    /\ x_served > 0
    /\ \/ req.sentences = <<>>
       \/ req.lang \notin {"ta", "hi", "te"}
       \/ req.beam_width \notin 1..20

\* the detail of the first check, in source order, that the request fails
FirstFailedCheck ==
    IF req.sentences = <<>> THEN "No sentences provided"
    ELSE IF req.lang \notin {"ta", "hi", "te"} THEN "Unsupported language"
    ELSE "beam_width must be between 1 and 20"

\* C29: a POST /transliterate with an empty sentence list, a language outside
\* SUPPORTED_LANGS or a beam_width outside 1..20 is answered with HTTP 400,
\* for the first of these checks it fails, and the engine is neither
\* constructed nor called for it.
C29_InvalidRequestRejected ==
    InvalidXlitRequest =>
        /\ x_pc \in {"validate", "responded"}
        /\ x_pc = "responded" =>
              /\ x_status = 400
              /\ x_detail = FirstFailedCheck
        /\ engine = "none"
        /\ translit_calls = 0

\* a request with sentences, an unsupported language and a beam_width of 21
\* has been rejected for its language
C29_Witness ==
    /\ x_pc = "responded"
    /\ req.sentences # <<>>
    /\ req.lang = "xx"
    /\ req.beam_width = 21
    /\ x_status = 400
    /\ x_detail = "Unsupported language"
    /\ engine = "none"

\* C30: the response is all-or-nothing: status 200 with exactly one entry per
\* input sentence, in input order, whose original field is that sentence, or
\* an error status without any list; a request that passed the checks gets
\* 200 or 500, and when sentence k fails the later sentences are not
\* transliterated.
C30_AllOrNothing ==
    /\ x_pc # "responded" => x_body = <<>>
    /\ x_pc = "responded" =>
          \/ /\ x_status = 200
             /\ x_failed_at = 0
             /\ Len(x_body) = Len(req.sentences)
             /\ translit_calls = Len(req.sentences)
             /\ \A k \in 1..Len(x_body) :
                   /\ x_body[k].original = req.sentences[k]
                   /\ x_body[k].transliterated = <<req.lang, req.sentences[k]>>
          \/ /\ x_status = IF InvalidXlitRequest THEN 400 ELSE 500
             /\ x_body = <<>>
             /\ x_failed_at > 0 => translit_calls = x_failed_at

\* the second of three sentences failed: HTTP 500, no list, no third call
C30_Witness ==
    /\ x_pc = "responded"
    /\ Len(req.sentences) = 3
    /\ x_failed_at = 2
    /\ Len(x_result) = 1
    /\ translit_calls = 2
    /\ x_status = 500
    /\ x_body = <<>>

====
